---- MODULE Spec2Model ----
(***************************************************************************)
(* Model of scripts/generate_premium_dashboard_excel.py: a one-shot        *)
(* pipeline that reads proposals (JSON on stdin), derives one row per      *)
(* proposal, sorts them by date, writes the sheets "Dados", "Clientes"     *)
(* and "Dashboard" (whose aggregates are spreadsheet formulas over         *)
(* "Dados") and saves the workbook.                                        *)
(*                                                                         *)
(* Representation.  Text is a tuple of one-character strings, client names *)
(* are tuples of character codes (compared by code point, as Python does), *)
(* an optional JSON field is <<>> when absent and <<v>> when present,      *)
(* money is an integer number of cents, a date is a day number and a       *)
(* timestamp a number of ticks (TicksPerDay ticks to the day).             *)
(***************************************************************************)
EXTENDS Integers, Sequences, FiniteSets, TLC

\* ---------------------------------------------------------------- bounds
MaxProposals == 2
MaxSortLen == 3
MaxSmallRank == 3
MaxClients == 12
MaxDay == 3
TicksPerDay == 2

\* ------------------------------------------------------ program constants
TopN == 10
Months == 12
ClientStart == 5
TrendBase == 24
TopBase == 44

channels == <<"Pix", "Cartao", "Boleto">>
sellers == <<"Razi", "Ana", "Joao", "Bea">>
cats == <<"Servico", "Produto", "Mensalidade", "Setup">>
ufs == <<"SP", "RJ", "MG", "PR">>

None == <<>>
Some(v) == <<v>>
Blank == [kind |-> "blank"]
Num(n) == [kind |-> "num", n |-> n]

\* ------------------------------------------------------------ parse_value
Digits == {"0", "1", "2", "3", "4", "5", "6", "7", "8", "9"}

DigitVal(c) ==
    CASE c = "0" -> 0 [] c = "1" -> 1 [] c = "2" -> 2 [] c = "3" -> 3
      [] c = "4" -> 4 [] c = "5" -> 5 [] c = "6" -> 6 [] c = "7" -> 7
      [] c = "8" -> 8 [] c = "9" -> 9

RECURSIVE LStrip(_)
LStrip(s) == IF s # <<>> /\ Head(s) = " " THEN LStrip(Tail(s)) ELSE s

RECURSIVE RStrip(_)
RStrip(s) ==
    IF s # <<>> /\ s[Len(s)] = " " THEN RStrip(SubSeq(s, 1, Len(s) - 1)) ELSE s

\* str.strip()
Strip(s) == RStrip(LStrip(s))

\* text.replace('.', '')
RemoveDots(s) == SelectSeq(s, LAMBDA c : c # ".")

\* text.replace(',', '.')
CommaToDot(s) == [k \in 1..Len(s) |-> IF s[k] = "," THEN "." ELSE s[k]]

Unsigned(s) == IF s # <<>> /\ Head(s) \in {"-", "+"} THEN Tail(s) ELSE s

DotCount(s) == Cardinality({k \in 1..Len(s) : s[k] = "."})

\* float() accepts [sign] digits [. digits] with at least one digit (no
\* exponent, inf or nan can be spelled with the characters of the inputs).
IsFloatLiteral(s) ==
    LET u == Unsigned(s) IN
    /\ \A k \in 1..Len(u) : u[k] \in Digits \cup {"."}
    /\ DotCount(u) <= 1
    /\ \E k \in 1..Len(u) : u[k] \in Digits

RECURSIVE DigitsVal(_)
DigitsVal(s) ==
    IF s = <<>> THEN 0 ELSE 10 * DigitsVal(SubSeq(s, 1, Len(s) - 1)) + DigitVal(s[Len(s)])

DotPos(u) == IF DotCount(u) = 0 THEN Len(u) + 1 ELSE CHOOSE k \in 1..Len(u) : u[k] = "."

\* round(float(s), 2) in cents: the first two decimals, rounded to nearest on
\* the third (a third decimal of exactly 5 rounds to the even cent).
FloatCents(s) ==
    LET u == Unsigned(s)
        dp == DotPos(u)
        ip == SubSeq(u, 1, dp - 1)
        fp == SubSeq(u, dp + 1, Len(u))
        f1 == IF Len(fp) >= 1 THEN DigitVal(fp[1]) ELSE 0
        f2 == IF Len(fp) >= 2 THEN DigitVal(fp[2]) ELSE 0
        f3 == IF Len(fp) >= 3 THEN DigitVal(fp[3]) ELSE 0
        base == 100 * DigitsVal(ip) + 10 * f1 + f2
        up == \/ f3 > 5
              \/ f3 = 5 /\ Len(fp) > 3
              \/ f3 = 5 /\ Len(fp) = 3 /\ base % 2 = 1
        mag == IF up THEN base + 1 ELSE base
    IN  IF s # <<>> /\ Head(s) = "-" THEN 0 - mag ELSE mag

\* The text handed to float() for a present, non-blank raw value.
Cleaned(raw) == CommaToDot(RemoveDots(Strip(raw[1])))

\* parse_value raises ValueError
ParseValueRaises(raw) ==
    /\ raw # None
    /\ Strip(raw[1]) # <<>>
    /\ ~IsFloatLiteral(Cleaned(raw))

\* round(parse_value(raw), 2), in cents, where parse_value returns
parse_value(raw) ==
    IF raw = None THEN 0
    ELSE IF Strip(raw[1]) = <<>> THEN 0
    ELSE FloatCents(Cleaned(raw))

\* ------------------------------------------------------------- parse_date
parse_date(raw, now) == IF raw.ok THEN raw.ts \div TicksPerDay ELSE now

\* ------------------------------------------------- row derivation (main)
\* int(p.get("id", 0) or 0)
pid(p) == IF p.id = None THEN 0 ELSE p.id[1]

\* str(p.get("status", "pendente"))
StatusOf(p) == IF p.status = None THEN "pendente" ELSE p.status[1]

\* str(p.get("clientName", ""))
ClientOf(p) == IF p.clientName = None THEN <<>> ELSE p.clientName[1]

\* str(p.get("title", f"Contrato #{pid}"))
TitleOf(p) ==
    IF p.title = None THEN [text |-> "Contrato #", num |-> pid(p)]
    ELSE [text |-> p.title[1], num |-> 0]

\* Faulty variant of ChannelOf: the channel also depends on the status.
ChannelByStatus(p) ==
    channels[((pid(p) + (IF StatusOf(p) = "vendida" THEN 1 ELSE 0)) % Len(channels)) + 1]

ChannelOf(p) == channels[(pid(p) % Len(channels)) + 1]

SellerOf(p) == sellers[((pid(p) + 1) % Len(sellers)) + 1]

CategoryOf(p) == cats[((pid(p) + 2) % Len(cats)) + 1]

RegionOf(p) == ufs[((pid(p) + 3) % Len(ufs)) + 1]

PaidOf(p) == IF StatusOf(p) = "vendida" THEN "Sim" ELSE "Nao"

\* The list appended to rows by one iteration of the loop.
DeriveRow(p, now) ==
    [date |-> parse_date(p.createdAt, now),
     client |-> ClientOf(p),
     title |-> TitleOf(p),
     status |-> StatusOf(p),
     channel |-> ChannelOf(p),
     value |-> parse_value(p.value),
     paid |-> PaidOf(p),
     seller |-> SellerOf(p),
     category |-> CategoryOf(p),
     uf |-> RegionOf(p)]

\* ------------------------------------------------ rows.sort(key = date)
\* list.sort is stable: an element goes after every element whose key is
\* not greater than its own.
\* Faulty variant of InsertByDate: an element goes before those of equal key.
RECURSIVE InsertBeforeEqualDate(_, _)
InsertBeforeEqualDate(s, x) ==
    IF s = <<>> THEN <<x>>
    ELSE IF x.date <= Head(s).date THEN <<x>> \o s
    ELSE <<Head(s)>> \o InsertBeforeEqualDate(Tail(s), x)

RECURSIVE InsertByDate(_, _)
InsertByDate(s, x) ==
    IF s = <<>> THEN <<x>>
    ELSE IF x.date < Head(s).date THEN <<x>> \o s
    ELSE <<Head(s)>> \o InsertByDate(Tail(s), x)

RECURSIVE SortByDate(_)
SortByDate(s) ==
    IF s = <<>> THEN <<>>
    ELSE InsertByDate(SortByDate(SubSeq(s, 1, Len(s) - 1)), s[Len(s)])

\* ------------------------------------------------------- sheet "Dados"
\* Row 1 of the sheet: the header cells (the client column holds a text
\* that is no client name, written as the reserved code 0).
HeaderRow ==
    [date |-> "Data", client |-> <<0>>, title |-> "Proposta", status |-> "Status",
     channel |-> "Canal", value |-> "Valor (R$)", paid |-> "Pago?",
     seller |-> "Vendedor", category |-> "Categoria", uf |-> "UF"]

\* ----------------------------------------- spreadsheet formula evaluation
\* Text criteria of COUNTIF / SUMIFS / COUNTIFS / MAXIFS ignore letter case.
Lower(s) ==
    CASE s = "Vendida" -> "vendida"
      [] s = "PENDENTE" -> "pendente"
      [] OTHER -> s

CritEq(cell, crit) == Lower(cell) = Lower(crit)

\* Rows of the whole column Dados!$D:$D (header included) meeting "status".
StatusRows(sheet, st) == {k \in 1..Len(sheet) : CritEq(sheet[k].status, st)}

\* Rows meeting both criteria Dados!$B:$B = name and Dados!$D:$D = status.
ClientStatusRows(sheet, name, st) ==
    {k \in StatusRows(sheet, st) : sheet[k].client = name}

RECURSIVE SumValues(_, _)
SumValues(sheet, S) ==
    IF S = {} THEN 0
    ELSE LET k == CHOOSE x \in S : TRUE
         IN  sheet[k].value + SumValues(sheet, S \ {k})

MaxDate(sheet, S) == CHOOSE d \in {sheet[k].date : k \in S} :
                         \A k \in S : sheet[k].date <= d

Error == [kind |-> "error"]
Ratio(a, b) == [kind |-> "ratio", num |-> a, den |-> b]

\* a/b of two numeric cells: #DIV/0! when b is 0
Divide(a, b) == IF b = 0 THEN Error ELSE Ratio(a, b)

IFERROR(x, dflt) == IF x = Error THEN dflt ELSE x

\* =SUMIFS(Dados!$F:$F,Dados!$D:$D,"vendida")
S6(sheet) == SumValues(sheet, StatusRows(sheet, "vendida"))
\* =COUNTIF(Dados!$D:$D,"vendida")
S7(sheet) == Cardinality(StatusRows(sheet, "vendida"))
\* =COUNTIF(Dados!$D:$D,"pendente")
S8(sheet) == Cardinality(StatusRows(sheet, "pendente"))
\* =COUNTIF(Dados!$D:$D,"cancelada")
S9(sheet) == Cardinality(StatusRows(sheet, "cancelada"))
\* =IFERROR(S6/S7,0)
S10(sheet) == IFERROR(Divide(S6(sheet), S7(sheet)), Num(0))
\* =IFERROR(S7/(S7+S8+S9),0)
S11(sheet) == IFERROR(Divide(S7(sheet), S7(sheet) + S8(sheet) + S9(sheet)), Num(0))

\* =SUMIFS(Dados!$F:$F,Dados!$B:$B,$A{r},Dados!$D:$D,"vendida")
ClientRevenue(sheet, name) == SumValues(sheet, ClientStatusRows(sheet, name, "vendida"))
\* =COUNTIFS(Dados!$B:$B,$A{r},Dados!$D:$D,<status>)
ClientCount(sheet, name, st) == Cardinality(ClientStatusRows(sheet, name, st))
\* =IFERROR($B{r}/$C{r},0)
ClientTicket(sheet, name) ==
    IFERROR(Divide(ClientRevenue(sheet, name), ClientCount(sheet, name, "vendida")), Num(0))
\* MAXIFS(Dados!$A:$A,Dados!$B:$B,$A{r},Dados!$D:$D,"vendida"): the largest
\* matching date, and the number 0 (not an error) when no row matches.
MAXIFS(sheet, name) ==
    LET S == ClientStatusRows(sheet, name, "vendida")
    IN  IF S = {} THEN Num(0) ELSE Num(MaxDate(sheet, S))
\* =IFERROR(MAXIFS(...),"")
ClientLastSale(sheet, name) == IFERROR(MAXIFS(sheet, name), Blank)

\* ------------------------------------------------------- client roster
\* Python's string order: by code point, a proper prefix first.
RECURSIVE LexLeq(_, _)
LexLeq(a, b) ==
    IF a = <<>> THEN TRUE
    ELSE IF b = <<>> THEN FALSE
    ELSE IF Head(a) # Head(b) THEN Head(a) < Head(b)
    ELSE LexLeq(Tail(a), Tail(b))

RECURSIVE SortedNames(_)
SortedNames(S) ==
    IF S = {} THEN <<>>
    ELSE LET m == CHOOSE x \in S : \A y \in S : LexLeq(x, y)
         IN  <<m>> \o SortedNames(S \ {m})

\* {r[1] for r in rows}
NameSet(rs) == {rs[k].client : k \in 1..Len(rs)}

\* sum(r[5] for r in rows if r[1] == n and r[3] == "vendida")
RECURSIVE SoldRevenue(_, _)
SoldRevenue(rs, n) ==
    IF rs = <<>> THEN 0
    ELSE (IF Head(rs).client = n /\ Head(rs).status = "vendida" THEN Head(rs).value ELSE 0)
         + SoldRevenue(Tail(rs), n)

\* sorted(names, key = revenue, reverse = True) keeps the stability of
\* sorted: a name goes after every name whose key is not smaller.
\* Faulty variant of InsertByRevenue: a name goes before those of equal key.
RECURSIVE InsertBeforeEqualRevenue(_, _, _)
InsertBeforeEqualRevenue(s, x, rs) ==
    IF s = <<>> THEN <<x>>
    ELSE IF SoldRevenue(rs, x) >= SoldRevenue(rs, Head(s)) THEN <<x>> \o s
    ELSE <<Head(s)>> \o InsertBeforeEqualRevenue(Tail(s), x, rs)

RECURSIVE InsertByRevenue(_, _, _)
InsertByRevenue(s, x, rs) ==
    IF s = <<>> THEN <<x>>
    ELSE IF SoldRevenue(rs, x) > SoldRevenue(rs, Head(s)) THEN <<x>> \o s
    ELSE <<Head(s)>> \o InsertByRevenue(Tail(s), x, rs)

RECURSIVE SortByRevenue(_, _)
SortByRevenue(ns, rs) ==
    IF ns = <<>> THEN <<>>
    ELSE InsertByRevenue(SortByRevenue(SubSeq(ns, 1, Len(ns) - 1), rs), ns[Len(ns)], rs)

\* The ten slots I44..I53: slot i holds sorted_clients[i] when there is one.
TopSlots(sc) ==
    [i \in 1..TopN |->
        IF i <= Len(sc) THEN [row |-> TopBase + i - 1, filled |-> TRUE, name |-> sc[i]]
        ELSE [row |-> TopBase + i - 1, filled |-> FALSE, name |-> <<>>]]

\* Rows 5.. of "Clientes": one per name, each formula keyed on $A{r}.
ClientRows(ns) == [k \in 1..Len(ns) |-> [row |-> ClientStart + k - 1, name |-> ns[k]]]

\* The TOTAL row: =SUM(B{start}:B{total_r-1})
TotalRow(ns) ==
    LET total_r == ClientStart + Len(ns)
    IN  [row |-> total_r, first |-> ClientStart, last |-> total_r - 1]

\* a_rng, d_rng, f_rng, canal_rng: rows 2..max_row of columns A, D, F, E
DataRange(col, max_row) == [col |-> col, first |-> 2, last |-> max_row]

TrendRows(max_row) ==
    [i \in 1..Months |->
        [row |-> TrendBase + i - 1,
         a |-> DataRange("A", max_row), d |-> DataRange("D", max_row),
         f |-> DataRange("F", max_row), canal |-> DataRange("E", max_row)]]

\* ------------------------------------------------------------------ state
VARIABLES
    argv,           \* TRUE iff the output path argument was given
    stdin,          \* the document on standard input
    today,          \* dt.date.today() (the run stays within one calendar day)
    pc,             \* position in the script
    proposals,      \* payload.get("proposals", [])
    rows,           \* the list rows
    dataSheet,      \* the rows of sheet "Dados", header first
    max_row,        \* ws_data.max_row
    names,          \* the client roster
    clientRows,     \* the per-client rows of sheet "Clientes"
    totalRow,       \* the TOTAL row of sheet "Clientes"
    trend,          \* the 12 monthly-trend rows of the dashboard
    sorted_clients, \* the roster ordered for the ranking
    top,            \* the ten ranking slots of the dashboard
    error,          \* the exception raised, "none" if none
    exitCode,       \* the exit status, -1 while running
    outFile         \* what exists at the output path: none, partial, complete

vars == <<argv, stdin, today, pc, proposals, rows, dataSheet, max_row, names,
          clientRows, totalRow, trend, sorted_clients, top, error, exitCode, outFile>>

BadJson == [ok |-> FALSE, proposals |-> <<>>]
Payload(ps) == [ok |-> TRUE, proposals |-> ps]

SeqsUpTo(S, n) == UNION {[1..k -> S] : k \in 0..n}

InitOn(lists, days) ==
    /\ argv \in BOOLEAN
    /\ stdin \in {BadJson} \cup {Payload(ps) : ps \in lists}
    /\ today \in days
    /\ pc = "start"
    /\ proposals = <<>>
    /\ rows = <<>>
    /\ dataSheet = <<>>
    /\ max_row = 0
    /\ names = <<>>
    /\ clientRows = <<>>
    /\ totalRow = [row |-> 0, first |-> 0, last |-> 0]
    /\ trend = <<>>
    /\ sorted_clients = <<>>
    /\ top = <<>>
    /\ error = "none"
    /\ exitCode = -1
    /\ outFile = "none"

\* -------------------------------------------------------------- the script
\* len(sys.argv) < 2: usage message, sys.exit(2) (SystemExit is no Exception)
CheckArgs ==
    /\ pc = "start"
    /\ IF argv
       THEN pc' = "read" /\ UNCHANGED exitCode
       ELSE pc' = "done" /\ exitCode' = 2
    /\ UNCHANGED <<argv, stdin, today, proposals, rows, dataSheet, max_row, names,
                   clientRows, totalRow, trend, sorted_clients, top, error, outFile>>

\* json.loads(...), payload.get("proposals", []), the workbook and the header
ReadInput ==
    /\ pc = "read"
    /\ IF stdin.ok
       THEN /\ proposals' = stdin.proposals
            /\ dataSheet' = <<HeaderRow>>
            /\ pc' = "derive"
            /\ UNCHANGED error
       ELSE /\ error' = "JSONDecodeError"
            /\ pc' = "except"
            /\ UNCHANGED <<proposals, dataSheet>>
    /\ UNCHANGED <<argv, stdin, today, rows, max_row, names, clientRows, totalRow,
                   trend, sorted_clients, top, exitCode, outFile>>

\* one iteration of "for p in proposals"
DeriveStep ==
    /\ pc = "derive"
    /\ Len(rows) < Len(proposals)
    /\ LET p == proposals[Len(rows) + 1] IN
       IF ParseValueRaises(p.value)
       THEN error' = "ValueError" /\ pc' = "except" /\ UNCHANGED rows
       ELSE rows' = Append(rows, DeriveRow(p, today)) /\ UNCHANGED <<error, pc>>
    /\ UNCHANGED <<argv, stdin, today, proposals, dataSheet, max_row, names, clientRows,
                   totalRow, trend, sorted_clients, top, exitCode, outFile>>

\* rows.sort, ws_data.append(r) for each row, max_row = ws_data.max_row
SortAndWrite ==
    /\ pc = "derive"
    /\ Len(rows) = Len(proposals)
    /\ rows' = SortByDate(rows)
    /\ dataSheet' = dataSheet \o rows'
    /\ max_row' = Len(dataSheet')
    /\ pc' = "clients"
    /\ UNCHANGED <<argv, stdin, today, proposals, names, clientRows, totalRow, trend,
                   sorted_clients, top, error, exitCode, outFile>>

\* sheet "Clientes": names, one row per name, the TOTAL row
BuildClients ==
    /\ pc = "clients"
    /\ names' = SortedNames(NameSet(rows))
    /\ clientRows' = ClientRows(names')
    /\ totalRow' = TotalRow(names')
    /\ pc' = "dashboard"
    /\ UNCHANGED <<argv, stdin, today, proposals, rows, dataSheet, max_row, trend,
                   sorted_clients, top, error, exitCode, outFile>>

\* sheet "Dashboard": the KPI cells S6..S11 (fixed formulas) and the trend rows
BuildDashboard ==
    /\ pc = "dashboard"
    /\ trend' = TrendRows(max_row)
    /\ pc' = "top"
    /\ UNCHANGED <<argv, stdin, today, proposals, rows, dataSheet, max_row, names,
                   clientRows, totalRow, sorted_clients, top, error, exitCode, outFile>>

\* the top-10 table
BuildTop ==
    /\ pc = "top"
    /\ sorted_clients' = SortByRevenue(names, rows)
    /\ top' = TopSlots(sorted_clients')
    /\ pc' = "save"
    /\ UNCHANGED <<argv, stdin, today, proposals, rows, dataSheet, max_row, names,
                   clientRows, totalRow, trend, error, exitCode, outFile>>

\* wb.save(out_path): succeeds, or raises before the file is created (the path
\* cannot be opened), or raises while the archive is being written.
SaveOutcomes == {"saved", "open failed", "write failed"}

Save ==
    /\ pc = "save"
    /\ \E o \in SaveOutcomes :
         /\ outFile' = CASE o = "saved" -> "complete"
                         [] o = "open failed" -> "none"
                         [] o = "write failed" -> "partial"
         /\ IF o = "saved"
            THEN pc' = "done" /\ exitCode' = 0 /\ UNCHANGED error
            ELSE pc' = "except" /\ error' = "OSError" /\ UNCHANGED exitCode
    /\ UNCHANGED <<argv, stdin, today, proposals, rows, dataSheet, max_row, names,
                   clientRows, totalRow, trend, sorted_clients, top>>

\* except Exception as exc: print, sys.exit(1)
HandleException ==
    /\ pc = "except"
    /\ exitCode' = 1
    /\ pc' = "done"
    /\ UNCHANGED <<argv, stdin, today, proposals, rows, dataSheet, max_row, names,
                   clientRows, totalRow, trend, sorted_clients, top, error, outFile>>

Next ==
    \/ CheckArgs
    \/ ReadInput
    \/ DeriveStep
    \/ SortAndWrite
    \/ BuildClients
    \/ BuildDashboard
    \/ BuildTop
    \/ Save
    \/ HandleException

\* ----------------------------------------------------------------- inputs
Prop(id, st, at, v, cn, t) ==
    [id |-> id, status |-> st, createdAt |-> at, value |-> v, clientName |-> cn, title |-> t]

\* An ISO timestamp falling on day d, and a createdAt that does not parse
\* (missing, null or malformed).
OnDay(d) == [ok |-> TRUE, ts |-> d * TicksPerDay + 1]
BadDate == [ok |-> FALSE, ts |-> 0]

\* str(n) of a non-negative whole number
RECURSIVE IntText(_)
IntText(n) ==
    LET d == <<"0", "1", "2", "3", "4", "5", "6", "7", "8", "9">>[(n % 10) + 1]
    IN  IF n < 10 THEN <<d>> ELSE Append(IntText(n \div 10), d)

Text1234c56 == <<"1", ".", "2", "3", "4", ",", "5", "6">>
TextMinus5 == <<"-", "5", ",", "0", "0">>
TextAbc == <<"a", "b", "c">>
TextSpace == <<" ">>
Text100 == <<"1", "0", "0", ",", "0", "0">>
Text50c5 == <<" ", "5", "0", ",", "5">>

\* Inputs of Spec: ids, values and the other fields of a proposal vary.
DeriveProposals ==
    {Prop(i, o[1], OnDay(1), v, Some(<<1>>), o[2]) :
        i \in {None, Some(-1), Some(6)},
        o \in {<<None, None>>, <<Some("vendida"), Some("T")>>},
        v \in {None, Some(TextSpace), Some(Text1234c56), Some(TextMinus5), Some(TextAbc)}}

\* Inputs of SpecAgg: statuses, clients, values and dates vary.
AggProposals ==
    {Prop(None, Some(st), OnDay(d), Some(v), cn, None) :
        st \in {"vendida", "pendente", "cancelada", "Vendida"},
        d \in {1, 2},
        v \in {Text100, Text50c5},
        cn \in {None, Some(<<1>>), Some(<<2>>)}}

\* Inputs of SpecSort: dates (two timestamps of day 1, one of day 2, one
\* unparseable) and ids vary.
SortProposals ==
    {Prop(i, None, at, None, None, None) :
        i \in {None, Some(1), Some(2)},
        at \in {OnDay(1), [ok |-> TRUE, ts |-> TicksPerDay], OnDay(2), BadDate}}

\* Inputs of SpecRank: every short list over three names (one a prefix of
\* another, one missing), and rosters of up to MaxClients clients whose sold
\* revenues follow a pattern.
SmallRankProposals ==
    {Prop(None, Some(st), OnDay(1), Some(IntText(v)), cn, None) :
        st \in {"vendida", "pendente"},
        v \in {1, 2},
        cn \in {None, Some(<<1>>), Some(<<1, 2>>), Some(<<2>>)}}

Patterns == 1..8

PatternValue(k, n, c) ==
    CASE k = 1 -> c
      [] k = 2 -> n + 1 - c
      [] k = 3 -> 5
      [] k = 4 -> (c + 1) \div 2
      [] k = 5 -> c % 3
      [] k = 6 -> ((c * 5) % (MaxClients + 1)) + 1
      [] k = 7 -> c
      [] OTHER -> c

PatternStatus(k, c) == IF k = 7 /\ c % 2 = 0 THEN "pendente" ELSE "vendida"

\* n clients, one proposal each; pattern 8 adds a second sold proposal that
\* evens out every client's sum.
PatternList(k, n) ==
    LET one == [c \in 1..n |->
                  Prop(Some(c), Some(PatternStatus(k, c)), OnDay(1),
                       Some(IntText(PatternValue(k, n, c))), Some(<<c>>), None)]
        two == [c \in 1..n |->
                  Prop(Some(c), Some("vendida"), OnDay(2),
                       Some(IntText(n + 1 - c)), Some(<<n + 1 - c>>), None)]
    IN  IF k = 8 THEN one \o two ELSE one

RankLists ==
    SeqsUpTo(SmallRankProposals, MaxSmallRank)
        \cup {PatternList(k, n) : k \in Patterns, n \in 0..MaxClients}

\* ----------------------------------------------------------------- specs
Init == InitOn(SeqsUpTo(DeriveProposals, MaxProposals), {MaxDay})
Spec == Init /\ [][Next]_vars

InitAgg == InitOn(SeqsUpTo(AggProposals, MaxProposals), {MaxDay})
SpecAgg == InitAgg /\ [][Next]_vars

InitSort == InitOn(SeqsUpTo(SortProposals, MaxSortLen), {1, MaxDay})
SpecSort == InitSort /\ [][Next]_vars

InitRank == InitOn(RankLists, {MaxDay})
SpecRank == InitRank /\ [][Next]_vars

\* ------------------------------------------------------ claims: helpers
\* The data rows of sheet "Dados" (the rows below the header).
DataRows == IF dataSheet = <<>> THEN <<>> ELSE Tail(dataSheet)

\* Data rows written, and nothing raised since.
Written == max_row > 0

DataIdx == 2..Len(dataSheet)

\* Rows of the sheet whose status is exactly st (and whose client is name).
ExactRows(st) == {k \in DataIdx : dataSheet[k].status = st}
ExactClientRows(name, st) == {k \in ExactRows(st) : dataSheet[k].client = name}

RatioIs(cell, a, b) ==
    IF b = 0 THEN cell = Num(0)
    ELSE cell.kind = "ratio" /\ cell.num * b = a * cell.den

\* ---------------------------------------------------------------- C1
\* C1: the channel, seller, category and region of a derived row are
\* channels[id mod 3], sellers[(id+1) mod 4], cats[(id+2) mod 4] and
\* ufs[(id+3) mod 4] of its proposal's id, so two proposals with the same id
\* get the same four fields whatever their other fields are.
C1_DerivedFieldsFromId ==
    pc = "derive" =>
        /\ \A k \in 1..Len(rows) :
             LET id == IF proposals[k].id = <<>> THEN 0 ELSE proposals[k].id[1] IN
             /\ rows[k].channel = <<"Pix", "Cartao", "Boleto">>[(id % 3) + 1]
             /\ rows[k].seller = <<"Razi", "Ana", "Joao", "Bea">>[((id + 1) % 4) + 1]
             /\ rows[k].category = <<"Servico", "Produto", "Mensalidade", "Setup">>[((id + 2) % 4) + 1]
             /\ rows[k].uf = <<"SP", "RJ", "MG", "PR">>[((id + 3) % 4) + 1]
        /\ \A j, k \in 1..Len(rows) :
             proposals[j].id = proposals[k].id =>
                 /\ rows[j].channel = rows[k].channel
                 /\ rows[j].seller = rows[k].seller
                 /\ rows[j].category = rows[k].category
                 /\ rows[j].uf = rows[k].uf

C1_Witness ==
    /\ pc = "derive"
    /\ Len(rows) = 2
    /\ proposals[1].id = Some(6) /\ proposals[2].id = Some(6)
    /\ proposals[1].status # proposals[2].status
    /\ proposals[1].value # proposals[2].value
    /\ proposals[1].title # proposals[2].title

\* ---------------------------------------------------------------- C2
\* C2: a record whose value is not numeric after cleaning is absorbed: the
\* run still ends with exit code 0, every record has its row, and the row
\* of such a record has value 0.
C2_BadValueAbsorbed ==
    (/\ pc = "done" /\ argv /\ stdin.ok /\ error # "OSError"
     /\ \E k \in 1..Len(stdin.proposals) : ParseValueRaises(stdin.proposals[k].value))
    => /\ exitCode = 0
       /\ Len(DataRows) = Len(stdin.proposals)
       /\ \E k \in 1..Len(DataRows) : DataRows[k].value = 0

\* ---------------------------------------------------------------- C3
\* C3: a run ends with exit code 2 and no output file (argument missing), or
\* exit code 1 and no output file (an exception), or exit code 0 and the
\* output file; an output artifact exists iff the run ended with exit code 0.
C3_ThreeOutcomes ==
    /\ pc = "done" =>
         \/ exitCode = 2 /\ ~argv /\ outFile = "none"
         \/ exitCode = 1 /\ argv /\ error # "none" /\ outFile = "none"
         \/ exitCode = 0 /\ argv /\ error = "none" /\ outFile = "complete"
    /\ outFile # "none" <=> (pc = "done" /\ exitCode = 0)

\* ---------------------------------------------------------------- C4
\* C4: the KPI formulas evaluate to: revenue = sum of value over the rows
\* whose status is "vendida"; the three counts = number of rows whose status
\* is "vendida", "pendente", "cancelada"; ticket = revenue / sold (0 when
\* sold is 0); conversion = sold / (sold + pending + cancelled) (0 when that
\* is 0).
C4_GlobalKpis ==
    trend # <<>> =>
        LET sold == Cardinality(ExactRows("vendida"))
            pend == Cardinality(ExactRows("pendente"))
            canc == Cardinality(ExactRows("cancelada"))
            rev == SumValues(dataSheet, ExactRows("vendida"))
        IN  /\ S6(dataSheet) = rev
            /\ S7(dataSheet) = sold
            /\ S8(dataSheet) = pend
            /\ S9(dataSheet) = canc
            /\ RatioIs(S10(dataSheet), rev, sold)
            /\ RatioIs(S11(dataSheet), sold, sold + pend + canc)

\* ---------------------------------------------------------------- C7
\* C7: the "most recent sold date" cell of a client with no row of status
\* "vendida" is blank, and that of a client with such rows is the largest
\* date among them.
C7_LastSaleCell ==
    \A i \in 1..Len(clientRows) :
        LET name == clientRows[i].name
            S == ExactClientRows(name, "vendida")
        IN  name # <<>> =>
                IF S = {} THEN ClientLastSale(dataSheet, name) = Blank
                ELSE ClientLastSale(dataSheet, name) = Num(MaxDate(dataSheet, S))

\* ---------------------------------------------------------------- C8
\* C8: every row-bounded range emitted has first row <= last row: the four
\* ranges of each monthly-trend row are rows 2..n+1 of the data sheet, and
\* the SUM ranges of the TOTAL row are exactly the client rows.
C8_RangesValid ==
    /\ \A i \in 1..Len(trend) :
         \A r \in {trend[i].a, trend[i].d, trend[i].f, trend[i].canal} :
             /\ r.first <= r.last
             /\ r.first = 2 /\ r.last = Len(rows) + 1
    /\ totalRow.row > 0 =>
         /\ totalRow.first <= totalRow.last
         /\ {clientRows[i].row : i \in 1..Len(clientRows)} = totalRow.first..totalRow.last

\* ---------------------------------------------------------------- C9
\* C9: the roster behind the rollup rows and the ranking is the set of
\* distinct non-empty client names of the rows, each once; the empty name
\* has no rollup row and no ranking slot.
C9_RosterNonEmptyNames ==
    /\ totalRow.row > 0 =>
         /\ {clientRows[i].name : i \in 1..Len(clientRows)} = NameSet(rows) \ {<<>>}
         /\ \A i, j \in 1..Len(clientRows) :
              clientRows[i].name = clientRows[j].name => i = j
    /\ \A i \in 1..Len(top) : top[i].filled => top[i].name # <<>>

\* --------------------------------------------------------------- C10
\* C10: the value of every derived row is >= 0.
C10_ValuesNonNegative == \A k \in 1..Len(rows) : rows[k].value >= 0

\* ---------------------------------------------------------------- C5
\* C5: the ranking lists the clients by descending summed value of their
\* "vendida" rows, clients of equal sum by ascending name; the first
\* min(10, number of clients) slots are filled and the others blank, and
\* every client left out ranks after every client listed.
Clients == {DataRows[k].client : k \in 1..Len(DataRows)}

Revenue(n) == SumValues(dataSheet, ExactClientRows(n, "vendida"))

RanksBefore(a, b) ==
    \/ Revenue(a) > Revenue(b)
    \/ Revenue(a) = Revenue(b) /\ a # b /\ LexLeq(a, b)

Populated == IF Cardinality(Clients) < 10 THEN Cardinality(Clients) ELSE 10

OnDate(s, d) == SelectSeq(s, LAMBDA r : r.date = d)

C6_SortedStable ==
    [][(pc = "derive" /\ pc' = "clients") =>
         /\ Len(dataSheet') = Len(rows) + 1
         /\ \A i \in 2..(Len(dataSheet') - 1) : dataSheet'[i].date <= dataSheet'[i + 1].date
         /\ \A d \in {rows[k].date : k \in 1..Len(rows)} :
              OnDate(Tail(dataSheet'), d) = OnDate(rows, d)]_vars

\* Three rows written, the first two of one date and different, from an
\* input whose dates were not in order.
C6_Witness ==
    /\ Written
    /\ Len(DataRows) = 3
    /\ DataRows[1].date = DataRows[2].date
    /\ DataRows[1] # DataRows[2]
    /\ parse_date(proposals[1].createdAt, today) > parse_date(proposals[3].createdAt, today)

====
